---- MODULE Spec2Model ----
(***************************************************************************)
(* chat-cli: a command-line chat client for an OpenAI-compatible endpoint. *)
(* The model follows src/src/main.py (cli, run_chat_command,               *)
(* run_single_message, run_interactive_mode, is_terminal_compatible) and   *)
(* src/src/client.py (OpenAIClient).                                       *)
(*                                                                         *)
(* Text is a TLA+ string; Python's None is the reserved value None below,  *)
(* which no text of the model equals.  The remote service, the terminal    *)
(* and the human at the prompt are the environment: the lines typed, the   *)
(* deltas delivered and the transport failures are drawn from small sets.  *)
(***************************************************************************)
EXTENDS Integers, Sequences, FiniteSets, TLC

VARIABLES
    argv,           \* the parsed command line (cli's parameters)
    environ,        \* os.environ
    pc,             \* where the process is
    client,         \* the OpenAIClient instance, NoClient before construction
    history,        \* run_interactive_mode's history list
    user_input,     \* the last value Prompt.ask returned
    full_response,  \* the streaming accumulator
    response,       \* the value the last blocking call returned
    pending,        \* the generator _chat_stream returned: what it has yet to do
    backend,        \* the canned service of the client harness
    console,        \* what was written to the terminal since the last prompt
    sent,           \* the message list of the last completions.create call
    n_requests,     \* number of completions.create calls
    n_prompts,      \* number of Prompt.ask calls
    exit_code,      \* the process's exit code, None while it runs
    global_env,     \* the env file of the configuration directory
    local_env,      \* the .env file load_dotenv() finds
    compatible,     \* the values is_terminal_compatible returned, in order
    calls,          \* the calls made on the client, in order
    n_failed        \* number of times a driver's except branch ran

vars == <<argv, environ, pc, client, history, user_input, full_response,
          response, pending, backend, console, sent, n_requests, n_prompts,
          exit_code, global_env, local_env, compatible, calls, n_failed>>

----------------------------------------------------------------------------
(* Bounds *)

\* A session takes at most MaxTurns non-exit lines.
MaxTurns == 2

----------------------------------------------------------------------------
(* Python values *)

None == "<None>"

\* bool(x) of an Optional[str]
Truthy(x) == x # None /\ x # ""

UpperCase == "ABCDEFGHIJKLMNOPQRSTUVWXYZ"
LowerCase == "abcdefghijklmnopqrstuvwxyz"

\* str.lower() of one character
LowerChar(c) ==
    IF \E i \in 1..Len(UpperCase) : SubSeq(UpperCase, i, i) = c
    THEN LET i == CHOOSE j \in 1..Len(UpperCase) : SubSeq(UpperCase, j, j) = c
         IN  SubSeq(LowerCase, i, i)
    ELSE c

RECURSIVE Lower(_)
\* str.lower()
Lower(s) ==
    IF Len(s) = 0 THEN ""
    ELSE LowerChar(SubSeq(s, 1, 1)) \o Lower(SubSeq(s, 2, Len(s)))

IsSpace(c) == c \in {" ", "\t"}

RECURSIVE LStrip(_)
LStrip(s) ==
    IF Len(s) > 0 /\ IsSpace(SubSeq(s, 1, 1))
    THEN LStrip(SubSeq(s, 2, Len(s)))
    ELSE s

RECURSIVE RStrip(_)
RStrip(s) ==
    IF Len(s) > 0 /\ IsSpace(SubSeq(s, Len(s), Len(s)))
    THEN RStrip(SubSeq(s, 1, Len(s) - 1))
    ELSE s

\* str.strip()
Strip(s) == RStrip(LStrip(s))

\* sub in s
Contains(s, sub) ==
    \E i \in 1..(Len(s) - Len(sub) + 1) : SubSeq(s, i, i + Len(sub) - 1) = sub

\* os.getenv(key, default)
getenv(env, key, default) == IF env[key] = None THEN default ELSE env[key]

\* An env file: whether it exists, and the value it gives each key (None
\* for a key it does not mention)
EnvFile(exists, values) == [exists |-> exists, values |-> values]

\* load_dotenv(path, override): a key of the file is set in the environment
\* unless the environment has it already and override is off
load_dotenv(env, file, override) ==
    IF ~file.exists THEN env
    ELSE [k \in DOMAIN env |->
            IF file.values[k] = None THEN env[k]
            ELSE IF env[k] # None /\ ~override THEN env[k]
            ELSE file.values[k]]

\* load_env_files: the global file without override, then the local file
\* with override=True
load_env_files(env, global_file, local_file) ==
    load_dotenv(load_dotenv(env, global_file, FALSE), local_file, TRUE)

----------------------------------------------------------------------------
(* Render strategy selector *)

modern_terminals ==
    {"wezterm", "alacritty", "kitty", "windows terminal", "gnome-terminal",
     "konsole", "terminal.app"}

modern_terms == {"xterm-256color", "screen-256color", "tmux-256color"}

problematic_terms == {"screen", "linux", "dumb"}

\* Mutant: TERM is looked at before the SSH variables
is_terminal_compatible_term_first(env) ==
    LET term         == Lower(getenv(env, "TERM", ""))
        term_program == Lower(getenv(env, "TERM_PROGRAM", ""))
    IN  IF term_program = "vscode" THEN TRUE
        ELSE IF term_program \in modern_terminals THEN TRUE
        ELSE IF \E m \in modern_terms : Contains(term, m) THEN TRUE
        ELSE IF Truthy(env["SSH_CLIENT"]) \/ Truthy(env["SSH_TTY"]) THEN FALSE
        ELSE IF term \in problematic_terms THEN FALSE
        ELSE TRUE

is_terminal_compatible(env) ==
    LET term         == Lower(getenv(env, "TERM", ""))
        term_program == Lower(getenv(env, "TERM_PROGRAM", ""))
    IN  IF term_program = "vscode" THEN TRUE
        ELSE IF term_program \in modern_terminals THEN TRUE
        ELSE IF Truthy(env["SSH_CLIENT"]) \/ Truthy(env["SSH_TTY"]) THEN FALSE
        ELSE IF \E m \in modern_terms : Contains(term, m) THEN TRUE
        ELSE IF term \in problematic_terms THEN FALSE
        ELSE TRUE

\* Mutant: the selection looks at the terminal only
use_simple_ignoring_flag(simple_stream, env) == ~is_terminal_compatible(env)

\* use_simple of run_single_message and run_interactive_mode
use_simple(simple_stream, env) ==
    IF simple_stream THEN TRUE ELSE ~is_terminal_compatible(env)

\* The selection calls is_terminal_compatible unless --simple-stream decides
Selecting(simple_stream, env, seen) ==
    IF simple_stream THEN seen ELSE Append(seen, is_terminal_compatible(env))

----------------------------------------------------------------------------
(* Completion client *)

DefaultBaseUrl == "https://api.openai.com/v1"
DefaultModel == "gpt-3.5-turbo"
DefaultSystemPrompt == "You are a helpful assistant"

\* Mutant: only an absent key is refused
InitRaisesOnAbsentOnly(env) == getenv(env, "OPENAI_API_KEY", None) = None

\* OpenAIClient.__init__ raises ValueError
InitRaises(env) == ~Truthy(getenv(env, "OPENAI_API_KEY", None))

\* No client: the constructor has not run, or raised
NoClient == [api_key |-> None, base_url |-> None, model |-> None]

\* The fields OpenAIClient.__init__ sets
OpenAIClient(env) ==
    [api_key  |-> getenv(env, "OPENAI_API_KEY", None),
     base_url |-> getenv(env, "OPENAI_BASE_URL", DefaultBaseUrl),
     model    |-> getenv(env, "OPENAI_MODEL", DefaultModel)]

Message(role, content) == [role |-> role, content |-> content]

\* One call of a method of the client, with its arguments
Call(method, args) == [method |-> method, args |-> args]

\* The system message both the client and the session start from
SystemMessage(system_prompt) ==
    IF Truthy(system_prompt)
    THEN Message("system", system_prompt)
    ELSE Message("system", DefaultSystemPrompt)

\* The message list OpenAIClient.chat and chat_stream build
SingleMessages(message, system_prompt) ==
    <<SystemMessage(system_prompt), Message("user", message)>>

\* The service's answer to one request is a script: the deltas it streams
\* (each a content, or None for a delta without content) and whether the
\* transport raises once they are delivered.

RECURSIVE _chat_stream_stopping_at_none(_)
\* Mutant: a delta without content is taken for the end of the stream
_chat_stream_stopping_at_none(deltas) ==
    IF deltas = <<>> \/ Head(deltas) = None THEN <<>>
    ELSE <<Head(deltas)>> \o _chat_stream_stopping_at_none(Tail(deltas))

\* _chat_stream: the chunks the generator yields for the deltas it receives
_chat_stream(deltas) == SelectSeq(deltas, LAMBDA d : d # None)

\* The generator: the chunks it will yield, then StopIteration or the raise
Generator(script) ==
    [chunks |-> _chat_stream(script.deltas), fails |-> script.fails]

Exhausted == [chunks |-> <<>>, fails |-> FALSE]

RECURSIVE Join(_)
\* "".join(chunks)
Join(chunks) ==
    IF chunks = <<>> THEN "" ELSE Head(chunks) \o Join(Tail(chunks))

\* The message content of the same answer delivered whole: the deltas'
\* contents in order, None when no delta carries content
Content(deltas) ==
    IF \A i \in 1..Len(deltas) : deltas[i] = None THEN None
    ELSE Join(SelectSeq(deltas, LAMBDA d : d # None))

\* What completions.create(stream=False) does with that answer
BackendReply(script) ==
    [error |-> script.fails,
     choices |-> IF script.fails THEN <<>> ELSE <<Content(script.deltas)>>]

\* chat / chat_with_history, blocking.  A reply is what completions.create
\* does: it raises (error), or returns an object with a list of choices, each
\* holding a message content (a text or None).
\* The call raises "API call failed" when create raises or choices[0] does not
\* exist; anything else is returned as it is.
BlockingRaises(reply) == reply.error \/ Len(reply.choices) = 0

BlockingReturn(reply) == reply.choices[1]

----------------------------------------------------------------------------
(* Terminal output *)

Thinking == "..."
TransportCause == "API call failed"
TypeCause == "NoneType"

Out(kind, text) == [kind |-> kind, text |-> text]

\* Panel(Text(text)) raises when text is None
PanelRaises(text) == text = None

\* live.update(Panel(Text(full_response))): the live panel is the last entry
LiveUpdate(con, text) == [con EXCEPT ![Len(con)] = Out("live", text)]

\* The response text visible on the terminal
RECURSIVE Shown(_)
Shown(con) ==
    IF con = <<>> THEN ""
    ELSE LET e == con[Len(con)]
             before == Shown(SubSeq(con, 1, Len(con) - 1))
         IN  IF e.kind = "chunk" THEN before \o e.text
             ELSE IF e.kind = "live" /\ e.text # Thinking THEN before \o e.text
             ELSE before

----------------------------------------------------------------------------
(* Inputs *)

\* Values Prompt.ask returns
ExitLines == {"q", ":Q", "Exit", "QUIT", " quit\t"}
ChatLines == {"Hello", ":qq"}
Lines == ExitLines \cup ChatLines

\* The deltas of one streamed answer (chunk.choices[0].delta.content)
DeltaSeqs ==
    {<<>>, <<None>>, <<"Hel">>, <<"Hel", "lo">>, <<"lo", "Hel">>,
     <<"", "Hel", None, "lo", None>>}

Scripts == [deltas : DeltaSeqs, fails : BOOLEAN]

\* What completions.create(stream=False) does: the answers above, or an
\* object without choices
Replies ==
    {BackendReply(sc) : sc \in Scripts} \cup {[error |-> FALSE, choices |-> <<>>]}

Messages == {None, "", "Hello"}
SystemPrompts == {None, "", "Be brief"}

ApiKeys == {None, "", "sk-test"}
BaseUrls == {None, "http://localhost:8000/v1"}
Models == {None, "local-model"}

EnvKeys == {"OPENAI_API_KEY", "OPENAI_BASE_URL", "OPENAI_MODEL",
            "TERM", "TERM_PROGRAM", "SSH_CLIENT", "SSH_TTY"}

Unset == [k \in EnvKeys |-> None]

\* No env file at that place
NoFile == EnvFile(FALSE, Unset)

\* Process environments.  Credentials vary with no terminal signal set;
\* terminals vary with the credential set and the endpoint left to default.
Environs ==
    {[Unset EXCEPT !["OPENAI_API_KEY"] = k, !["OPENAI_BASE_URL"] = b,
                   !["OPENAI_MODEL"] = m] :
        k \in ApiKeys, b \in BaseUrls, m \in Models}
    \cup
    {[Unset EXCEPT !["OPENAI_API_KEY"] = "sk-test", !["TERM"] = "dumb"],
     [Unset EXCEPT !["OPENAI_API_KEY"] = "sk-test", !["TERM"] = "xterm-256color",
                   !["SSH_TTY"] = "/dev/pts/0"],
     [Unset EXCEPT !["OPENAI_API_KEY"] = "sk-test", !["TERM"] = "Screen",
                   !["TERM_PROGRAM"] = "vscode", !["SSH_CLIENT"] = "10.0.0.1"]}

\* Command lines.  An interactive invocation carries no positional message
\* (run_chat_command does not look at it then).
Invocations ==
    {a \in [message : Messages, interactive : BOOLEAN, system : SystemPrompts,
            show_config : BOOLEAN, disable_stream : BOOLEAN,
            simple_stream : BOOLEAN] :
        a.interactive => a.message = None}


----------------------------------------------------------------------------
(* The process *)

\* stream = not disable_stream (cli)
stream == ~argv.disable_stream

\* The command line and the environment, fixed once the process runs
invocation == <<argv, environ, backend, global_env, local_env>>

Init ==
    /\ argv \in Invocations
    /\ environ \in Environs
    /\ pc = "cli"
    /\ client = NoClient
    /\ history = <<>>
    /\ user_input = None
    /\ full_response = None
    /\ response = None
    /\ pending = Exhausted
    /\ backend = None
    /\ console = <<>>
    /\ sent = <<>>
    /\ n_requests = 0
    /\ n_prompts = 0
    /\ exit_code = None
    /\ global_env = NoFile
    /\ local_env = NoFile
    /\ compatible = <<>>
    /\ calls = <<>>
    /\ n_failed = 0

\* cli: --config runs the configuration command, anything else the chat
cli ==
    /\ pc = "cli"
    /\ pc' = IF argv.show_config THEN "config" ELSE "run_chat_command"
    /\ UNCHANGED <<invocation, compatible, calls, n_failed, client, history, user_input, full_response,
                   response, pending, console, sent, n_requests, n_prompts,
                   exit_code>>

\* Mutant: the ValueError branch prints and falls through to the dispatch
run_chat_command_falling_through ==
    /\ pc = "run_chat_command"
    /\ client' = IF InitRaises(environ) THEN NoClient ELSE OpenAIClient(environ)
    /\ LET con == IF InitRaises(environ)
                  THEN console \o <<Out("error", "OPENAI_API_KEY"),
                                    Out("hint", "chat-cli --config")>>
                  ELSE console
       IN  IF argv.interactive
           THEN /\ console' = Append(con, Out("banner", ""))
                /\ history' = <<SystemMessage(argv.system)>>
                /\ compatible' = Selecting(argv.simple_stream, environ,
                                            compatible)
                /\ pc' = "AwaitingInput"
                /\ UNCHANGED exit_code
           ELSE IF Truthy(argv.message)
           THEN /\ console' = con
                /\ pc' = "single"
                /\ UNCHANGED <<history, exit_code, compatible>>
           ELSE /\ console' = Append(con, Out("hint", "--interactive"))
                /\ exit_code' = 0
                /\ pc' = "exited"
                /\ UNCHANGED <<history, compatible>>
    /\ UNCHANGED <<invocation, calls, n_failed, user_input, full_response, response, pending,
                   sent, n_requests, n_prompts>>

\* run_chat_command: construct the client, then dispatch
run_chat_command ==
    /\ pc = "run_chat_command"
    /\ IF InitRaises(environ)
       THEN /\ console' = console \o <<Out("error", "OPENAI_API_KEY"),
                                       Out("hint", "chat-cli --config")>>
            /\ exit_code' = 1
            /\ pc' = "exited"
            /\ UNCHANGED <<client, history, compatible>>
       ELSE /\ client' = OpenAIClient(environ)
            /\ IF argv.interactive
               THEN /\ console' = Append(console, Out("banner", ""))
                    /\ history' = <<SystemMessage(argv.system)>>
                    /\ compatible' = Selecting(argv.simple_stream, environ,
                                                compatible)
                    /\ pc' = "AwaitingInput"
                    /\ UNCHANGED exit_code
               ELSE IF Truthy(argv.message)
               THEN /\ pc' = "single"
                    /\ UNCHANGED <<console, history, exit_code, compatible>>
               ELSE /\ console' = Append(console, Out("hint", "--interactive"))
                    /\ exit_code' = 0
                    /\ pc' = "exited"
                    /\ UNCHANGED <<history, compatible>>
    /\ UNCHANGED <<invocation, calls, n_failed, user_input, full_response, response, pending,
                   sent, n_requests, n_prompts>>

----------------------------------------------------------------------------
(* Streaming, as both drivers consume it *)

\* What the start of a streamed answer writes: SIMPLE prints a header, RICH
\* opens a Live panel
StreamOpen(con, simple) ==
    IF simple THEN Append(con, Out("header", ""))
    ELSE Append(con, Out("live", Thinking))

\* What one yielded chunk writes: SIMPLE prints the chunk, RICH updates the
\* panel with the accumulated text
StreamWrite(con, simple, chunk, text) ==
    IF simple THEN Append(con, Out("chunk", chunk))
    ELSE LiveUpdate(con, text)

\* The except branch of every driver
PrintError(con, cause) == Append(con, Out("error", cause))

\* full_response += chunk
Accumulate(text, chunk) == text \o chunk

\* One iteration of the for loop at pc = at: the generator yields a chunk
Chunk(at) ==
    /\ pc = at
    /\ pending.chunks # <<>>
    /\ LET chunk == Head(pending.chunks)
       IN  /\ pending' = [pending EXCEPT !.chunks = Tail(@)]
           /\ full_response' = Accumulate(full_response, chunk)
           /\ console' = StreamWrite(console,
                             use_simple(argv.simple_stream, environ),
                             chunk, full_response')
    /\ UNCHANGED <<invocation, compatible, calls, n_failed, pc, client, history, user_input, response,
                   sent, n_requests, n_prompts, exit_code>>

\* The for loop at pc = at is over: the generator stopped
StreamStops(at) == pc = at /\ pending.chunks = <<>> /\ ~pending.fails

\* The for loop at pc = at is left by the exception _chat_stream raises
StreamRaises(at) == pc = at /\ pending.chunks = <<>> /\ pending.fails

----------------------------------------------------------------------------
(* Interactive mode *)

exit_tokens == {"exit", "quit", ":q", "q"}

\* Mutant: the exit test is case-sensitive
IsExitCaseSensitive(line) == Strip(line) \in exit_tokens

IsExit(line) == Lower(Strip(line)) \in exit_tokens

UserCount(h) == Len(SelectSeq(h, LAMBDA m : m.role = "user"))

\* Mutant: the normalised line is stored instead of the line entered
AppendUserNormalised(h, text) == Append(h, Message("user", Lower(Strip(text))))

\* history.append(user) / history.append(assistant)
AppendUser(h, text) == Append(h, Message("user", text))

\* Mutant: the reply overwrites the last message instead of following it
AppendAssistantOverwriting(h, text) ==
    [h EXCEPT ![Len(h)] = Message("assistant", text)]

AppendAssistant(h, text) == Append(h, Message("assistant", text))

\* while True: Prompt.ask, the exit test, history.append(user)
PromptAsk ==
    /\ pc = "AwaitingInput"
    /\ \E line \in Lines :
        /\ user_input' = line
        /\ n_prompts' = n_prompts + 1
        /\ IF IsExit(line)
           THEN /\ console' = <<Out("info", "exited")>>
                /\ pc' = "Terminated"
                /\ exit_code' = 0
                /\ UNCHANGED history
           ELSE /\ UserCount(history) < MaxTurns
                /\ console' = <<>>
                /\ history' = AppendUser(history, line)
                /\ pc' = "Requesting"
                /\ UNCHANGED exit_code
    /\ UNCHANGED <<invocation, compatible, calls, n_failed, client, full_response, response, pending, sent,
                   n_requests>>

\* Mutant: the accumulator is not emptied between turns
InteractiveStreamCarryingOver ==
    /\ pc = "Requesting"
    /\ stream
    /\ full_response' = IF full_response = None THEN "" ELSE full_response
    /\ console' = StreamOpen(console, use_simple(argv.simple_stream, environ))
    /\ sent' = history
    /\ n_requests' = n_requests + 1
    /\ \E script \in Scripts : pending' = Generator(script)
    /\ calls' = Append(calls, Call("chat_with_history_stream", <<history>>))
    /\ pc' = "Rendering"
    /\ UNCHANGED <<invocation, compatible, n_failed, client, history,
                   user_input, response, n_prompts, exit_code>>

\* stream: full_response = "" and the for loop over
\* client.chat_with_history_stream(history) starts
InteractiveStream ==
    /\ pc = "Requesting"
    /\ stream
    /\ full_response' = ""
    /\ console' = StreamOpen(console, use_simple(argv.simple_stream, environ))
    /\ sent' = history
    /\ n_requests' = n_requests + 1
    /\ \E script \in Scripts : pending' = Generator(script)
    /\ calls' = Append(calls, Call("chat_with_history_stream", <<history>>))
    /\ pc' = "Rendering"
    /\ UNCHANGED <<invocation, compatible, n_failed, client, history, user_input, response,
                   n_prompts, exit_code>>

InteractiveChunk == Chunk("Rendering")

\* Mutant: the streamed reply is shown and not kept
InteractiveStreamEndDroppingReply ==
    /\ StreamStops("Rendering")
    /\ pc' = "AwaitingInput"
    /\ UNCHANGED <<invocation, compatible, calls, n_failed, client, history,
                   user_input, full_response, response, pending, console, sent,
                   n_requests, n_prompts, exit_code>>

\* The stream ends: history.append(assistant, full_response)
InteractiveStreamEnd ==
    /\ StreamStops("Rendering")
    /\ history' = AppendAssistant(history, full_response)
    /\ pc' = "AwaitingInput"
    /\ UNCHANGED <<invocation, compatible, calls, n_failed, client, user_input, full_response, response,
                   pending, console, sent, n_requests, n_prompts, exit_code>>

\* Mutant: the text accumulated so far is kept as the assistant's reply
InteractiveStreamFailKeepingPartial ==
    /\ StreamRaises("Rendering")
    /\ console' = PrintError(console, TransportCause)
    /\ history' = AppendAssistant(history, full_response)
    /\ pending' = Exhausted
    /\ n_failed' = n_failed + 1
    /\ pc' = "AwaitingInput"
    /\ UNCHANGED <<invocation, compatible, calls, client, user_input, full_response, response,
                   sent, n_requests, n_prompts, exit_code>>

\* Mutant: the exception leaves the loop and ends the process
InteractiveStreamFailUncaught ==
    /\ StreamRaises("Rendering")
    /\ console' = PrintError(console, TransportCause)
    /\ pending' = Exhausted
    /\ n_failed' = n_failed + 1
    /\ pc' = "exited"
    /\ exit_code' = 1
    /\ UNCHANGED <<invocation, compatible, calls, client, history, user_input, full_response,
                   response, sent, n_requests, n_prompts>>

\* Mutant: a failed stream is requested again
InteractiveStreamFailRetrying ==
    /\ StreamRaises("Rendering")
    /\ console' = PrintError(console, TransportCause)
    /\ full_response' = ""
    /\ sent' = history
    /\ n_requests' = n_requests + 1
    /\ pending' = Generator([deltas |-> <<"Hel", "lo">>, fails |-> FALSE])
    /\ calls' = Append(calls, Call("chat_with_history_stream", <<history>>))
    /\ UNCHANGED <<invocation, compatible, n_failed, pc, client, history,
                   user_input, response, n_prompts, exit_code>>

\* The stream raises: except Exception prints the cause
InteractiveStreamFail ==
    /\ StreamRaises("Rendering")
    /\ console' = PrintError(console, TransportCause)
    /\ pending' = Exhausted
    /\ n_failed' = n_failed + 1
    /\ pc' = "AwaitingInput"
    /\ UNCHANGED <<invocation, compatible, calls, client, history, user_input, full_response,
                   response, sent, n_requests, n_prompts, exit_code>>

\* not stream: response = client.chat_with_history(history), append, Panel
InteractiveBlocking ==
    /\ pc = "Requesting"
    /\ ~stream
    /\ sent' = history
    /\ n_requests' = n_requests + 1
    /\ \E reply \in Replies :
        IF BlockingRaises(reply)
        THEN /\ console' = PrintError(console, TransportCause)
             /\ n_failed' = n_failed + 1
             /\ UNCHANGED <<response, history>>
        ELSE /\ response' = BlockingReturn(reply)
             /\ history' = AppendAssistant(history, response')
             /\ console' = IF PanelRaises(response')
                           THEN PrintError(console, TypeCause)
                           ELSE Append(console, Out("panel", response'))
             /\ n_failed' = IF PanelRaises(response')
                            THEN n_failed + 1 ELSE n_failed
    /\ calls' = Append(calls, Call("chat_with_history", <<history>>))
    /\ pc' = "AwaitingInput"
    /\ UNCHANGED <<invocation, compatible, client, user_input, full_response, pending,
                   n_prompts, exit_code>>

----------------------------------------------------------------------------
(* Single-turn mode *)

\* stream: the for loop over client.chat_stream(message, system_prompt) starts
SingleStream ==
    /\ pc = "single"
    /\ stream
    /\ full_response' = ""
    /\ console' = StreamOpen(console, use_simple(argv.simple_stream, environ))
    /\ sent' = SingleMessages(argv.message, argv.system)
    /\ n_requests' = n_requests + 1
    /\ \E script \in Scripts : pending' = Generator(script)
    /\ compatible' = Selecting(argv.simple_stream, environ, compatible)
    /\ calls' = Append(calls, Call("chat_stream", <<argv.message, argv.system>>))
    /\ pc' = "single_rendering"
    /\ UNCHANGED <<invocation, n_failed, client, history, user_input, response,
                   n_prompts, exit_code>>

SingleChunk == Chunk("single_rendering")

\* The exit code of the process when run_single_message returns, whether or
\* not its except branch ran
SingleExitCode(failed) == 0

\* The stream ends: the function returns and the process exits
SingleStreamEnd ==
    /\ StreamStops("single_rendering")
    /\ pc' = "exited"
    /\ exit_code' = SingleExitCode(FALSE)
    /\ UNCHANGED <<invocation, compatible, calls, n_failed, client, history, user_input, full_response,
                   response, pending, console, sent, n_requests, n_prompts>>

\* The stream raises: except Exception prints the cause, the function returns
SingleStreamFail ==
    /\ StreamRaises("single_rendering")
    /\ console' = PrintError(console, TransportCause)
    /\ pending' = Exhausted
    /\ n_failed' = n_failed + 1
    /\ pc' = "exited"
    /\ exit_code' = SingleExitCode(TRUE)
    /\ UNCHANGED <<invocation, compatible, calls, client, history, user_input, full_response,
                   response, sent, n_requests, n_prompts>>

\* not stream: response = client.chat(message, system_prompt), Panel
SingleBlocking ==
    /\ pc = "single"
    /\ ~stream
    /\ sent' = SingleMessages(argv.message, argv.system)
    /\ n_requests' = n_requests + 1
    /\ \E reply \in Replies :
        IF BlockingRaises(reply)
        THEN /\ console' = PrintError(console, TransportCause)
             /\ exit_code' = SingleExitCode(TRUE)
             /\ n_failed' = n_failed + 1
             /\ UNCHANGED response
        ELSE /\ response' = BlockingReturn(reply)
             /\ console' = IF PanelRaises(response')
                           THEN PrintError(console, TypeCause)
                           ELSE Append(console, Out("panel", response'))
             /\ exit_code' = SingleExitCode(PanelRaises(response'))
             /\ n_failed' = IF PanelRaises(response')
                            THEN n_failed + 1 ELSE n_failed
    /\ calls' = Append(calls, Call("chat", <<argv.message, argv.system>>))
    /\ pc' = "exited"
    /\ UNCHANGED <<invocation, compatible, client, history, user_input, full_response,
                   pending, n_prompts>>

Next ==
    \/ cli
    \/ run_chat_command
    \/ PromptAsk
    \/ InteractiveStream
    \/ InteractiveChunk
    \/ InteractiveStreamEnd
    \/ InteractiveStreamFail
    \/ InteractiveBlocking
    \/ SingleStream
    \/ SingleChunk
    \/ SingleStreamEnd
    \/ SingleStreamFail
    \/ SingleBlocking

Spec == Init /\ [][Next]_vars

----------------------------------------------------------------------------
(* The client alone: one canned service asked the same thing both ways *)

\* Message lists handed to chat_with_history
MessageLists ==
    {<<SystemMessage(None), Message("user", "Hello")>>,
     <<SystemMessage("Be brief"), Message("user", "Hello"),
       Message("assistant", "Hi there"), Message("user", ":qq")>>,
     <<SystemMessage(None), Message("user", "Hello"), Message("user", "Hello")>>}

HarnessEnv == [Unset EXCEPT !["OPENAI_API_KEY"] = "sk-test"]

InitClient ==
    /\ argv = [message |-> None, interactive |-> FALSE, system |-> None,
               show_config |-> FALSE, disable_stream |-> FALSE,
               simple_stream |-> FALSE]
    /\ environ = HarnessEnv
    /\ pc = "harness"
    /\ client = OpenAIClient(HarnessEnv)
    /\ history \in MessageLists
    /\ user_input = None
    /\ full_response = None
    /\ response = None
    /\ pending = Exhausted
    /\ backend \in Scripts
    /\ console = <<>>
    /\ sent = <<>>
    /\ n_requests = 0
    /\ n_prompts = 0
    /\ exit_code = None
    /\ global_env = NoFile
    /\ local_env = NoFile
    /\ compatible = <<>>
    /\ calls = <<>>
    /\ n_failed = 0

\* client.chat_with_history(messages): the value returned, or the raise noted
HarnessBlocking ==
    /\ pc = "harness"
    /\ sent' = history
    /\ n_requests' = n_requests + 1
    /\ LET reply == BackendReply(backend)
       IN  IF BlockingRaises(reply)
           THEN /\ console' = PrintError(console, TransportCause)
                /\ UNCHANGED response
           ELSE /\ response' = BlockingReturn(reply)
                /\ UNCHANGED console
    /\ calls' = Append(calls, Call("chat_with_history", <<history>>))
    /\ pc' = "harness_stream"
    /\ UNCHANGED <<invocation, compatible, n_failed, client, history, user_input, full_response,
                   pending, n_prompts, exit_code>>

\* client.chat_with_history(messages, stream=True): the generator
HarnessStream ==
    /\ pc = "harness_stream"
    /\ sent' = history
    /\ n_requests' = n_requests + 1
    /\ pending' = Generator(backend)
    /\ full_response' = ""
    /\ calls' = Append(calls, Call("chat_with_history", <<history, TRUE>>))
    /\ pc' = "harness_rendering"
    /\ UNCHANGED <<invocation, compatible, n_failed, client, history, user_input, response, console,
                   n_prompts, exit_code>>

\* The generator yields a chunk, joined to those before it
HarnessChunk ==
    /\ pc = "harness_rendering"
    /\ pending.chunks # <<>>
    /\ pending' = [pending EXCEPT !.chunks = Tail(@)]
    /\ full_response' = Accumulate(full_response, Head(pending.chunks))
    /\ UNCHANGED <<invocation, compatible, calls, n_failed, pc, client, history, user_input, response,
                   console, sent, n_requests, n_prompts, exit_code>>

HarnessStreamEnd ==
    /\ StreamStops("harness_rendering")
    /\ pc' = "harness_done"
    /\ UNCHANGED <<invocation, compatible, calls, n_failed, client, history, user_input, full_response,
                   response, pending, console, sent, n_requests, n_prompts,
                   exit_code>>

HarnessStreamFail ==
    /\ StreamRaises("harness_rendering")
    /\ console' = PrintError(console, TransportCause)
    /\ pending' = Exhausted
    /\ pc' = "harness_done"
    /\ UNCHANGED <<invocation, compatible, calls, n_failed, client, history, user_input, full_response,
                   response, sent, n_requests, n_prompts, exit_code>>

NextClient ==
    \/ HarnessBlocking
    \/ HarnessStream
    \/ HarnessChunk
    \/ HarnessStreamEnd
    \/ HarnessStreamFail

SpecClient == InitClient /\ [][NextClient]_vars

----------------------------------------------------------------------------
(* Properties of the interactive session *)

IsPrefix(s, t) == Len(s) <= Len(t) /\ SubSeq(t, 1, Len(s)) = s

Last(s) == s[Len(s)]

SessionPcs == {"AwaitingInput", "Requesting", "Rendering", "Terminated"}

\* The except branch of the turn that just ended ran
TurnFailed(con) == con # <<>> /\ Last(con).kind = "error"

\* C1: in an interactive session the history always starts with the system
\* message, and every step leaves the history it found as a prefix of the
\* history it leaves: nothing is removed, reordered or changed.
C1_HistoryAppendOnly ==
    [][ /\ IsPrefix(history, history')
        /\ pc' \in SessionPcs =>
             /\ Len(history') >= 1
             /\ history'[1].role = "system"
             /\ history'[1].content =
                  (IF argv.system \in {None, ""}
                   THEN "You are a helpful assistant" ELSE argv.system)
             /\ \A i \in 2..Len(history') : history'[i].role # "system" ]_vars

\* A session in which a failed turn was followed by a successful one
C1_Witness ==
    /\ pc = "AwaitingInput"
    /\ Len(history) = 4
    /\ history[2].role = "user"
    /\ history[3].role = "user"
    /\ history[4].role = "assistant"

\* C2: when a streamed turn of the session fails, after any number of chunks,
\* the step that handles the failure appends nothing to the history, whose last
\* message is the user message just entered; everything written to the
\* terminal stays and shows the chunks delivered; the driver awaits input.
C2_FailedStreamKeepsUserOnly ==
    [][ (pc = "Rendering" /\ TurnFailed(console')) =>
            /\ history' = history
            /\ Last(history') = [role |-> "user", content |-> user_input]
            /\ \A i \in 1..Len(history') :
                 history'[i].role = "assistant" => i < Len(sent)
            /\ IsPrefix(console, console')
            /\ Shown(console') = full_response
            /\ pc' = "AwaitingInput" ]_vars

\* The stream failed after the chunks "Hel" and "lo" were written
C2_Witness ==
    /\ pc = "AwaitingInput"
    /\ stream
    /\ TurnFailed(console)
    /\ Shown(console) = "Hello"
    /\ Last(history).role = "user"

\* C3: no turn of the session, streamed or not, ends the driver: a request
\* in flight leads back to AwaitingInput with the process still running, and
\* the driver terminates only from AwaitingInput, on an exit token.
C3_ErrorsNeverTerminate ==
    [][ /\ pc \in {"Requesting", "Rendering"} =>
             /\ pc' \in {"Rendering", "AwaitingInput"}
             /\ exit_code' = None
        /\ (pc \in {"Requesting", "Rendering"} /\ TurnFailed(console')) =>
             pc' = "AwaitingInput"
        /\ (pc \in SessionPcs /\ pc' \notin {"AwaitingInput", "Requesting",
                                             "Rendering"}) =>
             /\ pc = "AwaitingInput"
             /\ pc' = "Terminated"
             /\ user_input' \in ExitLines ]_vars

\* Every turn of the session failed, and the driver awaits input again
C3_Witness ==
    /\ pc = "AwaitingInput"
    /\ UserCount(history) = MaxTurns
    /\ Len(history) = MaxTurns + 1
    /\ TurnFailed(console)

\* C4: in single-turn mode a completion that fails with a transport error,
\* streamed or not, makes the process exit with a non-zero code.
C4_SingleFailureExitsNonZero ==
    (/\ pc = "exited"
     /\ ~argv.interactive
     /\ n_requests = 1
     /\ TurnFailed(console)
     /\ Last(console).text = "API call failed") => exit_code # 0

\* C5: a line that is an exit token in any letter case takes the driver
\* from AwaitingInput straight to Terminated; the step appends nothing and
\* issues no request, and nothing happens after it.
C5_ExitTokenTerminates ==
    [][ /\ (pc = "AwaitingInput" /\ user_input' \in {"q", ":Q", "Exit", "QUIT"}) =>
             /\ pc' = "Terminated"
             /\ history' = history
             /\ n_requests' = n_requests
             /\ sent' = sent
        /\ pc = "Terminated" => pc' = "Terminated" ]_vars

\* The session ended on ":Q" after two turns
C5_Witness ==
    /\ pc = "Terminated"
    /\ user_input = ":Q"
    /\ n_requests = 2
    /\ n_prompts = 3
    /\ UserCount(history) = 2

\* C6: a turn whose completion succeeds leaves the history two longer: the
\* prompt step appends the user message with the line entered, nothing
\* changes the history while the answer is rendered, and the completing step
\* appends the assistant message with the text returned.
C6_SuccessfulTurnAppendsPair ==
    [][ /\ (pc = "AwaitingInput" /\ pc' = "Requesting") =>
             history' = history \o <<[role |-> "user", content |-> user_input']>>
        /\ (pc \in {"Requesting", "Rendering"} /\ pc' = "Rendering") =>
             history' = history
        /\ (pc \in {"Requesting", "Rendering"} /\ pc' = "AwaitingInput"
              /\ ~TurnFailed(console')) =>
             /\ Last(history) = [role |-> "user", content |-> user_input]
             /\ history' = history \o
                  <<[role |-> "assistant",
                     content |-> IF stream THEN full_response' ELSE response']>>
             /\ Last(history').content # None ]_vars

\* Two successful turns in a row, the second answered "Hello"
C6_Witness ==
    /\ pc = "AwaitingInput"
    /\ Len(history) = 5
    /\ history[3].role = "assistant"
    /\ history[4] = [role |-> "user", content |-> ":qq"]
    /\ history[5] = [role |-> "assistant", content |-> "Hello"]

\* C8: a blocking completion call returns the complete text or raises; it
\* never hands an absent text to its caller.
C8_BlockingNeverReturnsNone ==
    (/\ ~stream
     /\ n_requests > 0
     /\ pc \in {"AwaitingInput", "exited"}
     /\ ~(TurnFailed(console) /\ Last(console).text = "API call failed"))
    => response # None

\* C9: constructing the client succeeds exactly when the effective
\* OPENAI_API_KEY is non-empty; base_url and model take their defaults when
\* unset.
C9_ClientConstruction ==
    pc \notin {"cli", "config", "run_chat_command"} =>
        IF environ["OPENAI_API_KEY"] \in {None, ""}
        THEN /\ client = NoClient
             /\ console # <<>>
             /\ console[1] = [kind |-> "error", text |-> "OPENAI_API_KEY"]
        ELSE /\ client # NoClient
             /\ client.api_key = environ["OPENAI_API_KEY"]
             /\ client.base_url = (IF environ["OPENAI_BASE_URL"] = None
                                   THEN "https://api.openai.com/v1"
                                   ELSE environ["OPENAI_BASE_URL"])
             /\ client.model = (IF environ["OPENAI_MODEL"] = None
                                THEN "gpt-3.5-turbo"
                                ELSE environ["OPENAI_MODEL"])

\* A client built from a key and a model, with the default endpoint
C9_Witness ==
    /\ client # NoClient
    /\ environ["OPENAI_BASE_URL"] = None
    /\ client.base_url = "https://api.openai.com/v1"
    /\ client.model = "local-model"

\* C10: when the key is missing the chat command prints the hint and exits
\* with code 1; no line is read and no request is issued, whether a message
\* or the interactive flag was given.
C10_ConfigErrorExits ==
    (pc \notin {"cli", "config", "run_chat_command"}
       /\ environ["OPENAI_API_KEY"] \in {None, ""}) =>
        /\ pc = "exited"
        /\ exit_code = 1
        /\ \E i \in 1..Len(console) :
             console[i] = [kind |-> "hint", text |-> "chat-cli --config"]
        /\ n_prompts = 0
        /\ n_requests = 0
        /\ history = <<>>

\* The interactive flag was given and the key was empty
C10_Witness ==
    /\ pc = "exited"
    /\ argv.interactive
    /\ environ["OPENAI_API_KEY"] = ""
    /\ exit_code = 1

\* C7: asked the same thing of the same service, the chunks the streaming
\* call yields, joined in the order they came, are the text the blocking call
\* returns.
C7_StreamJoinsToBlockingText ==
    (/\ pc = "harness_done"
     /\ console = <<>>
     /\ response # None) => full_response = response

\* Both calls returned for a service that streams "", "Hel", "lo" between
\* deltas without content
C7_Witness ==
    /\ pc = "harness_done"
    /\ console = <<>>
    /\ backend.deltas = <<"", "Hel", None, "lo", None>>
    /\ response = "Hello"
    /\ full_response = "Hello"

----------------------------------------------------------------------------
(* Properties of the command line *)

\* Something of that kind and text was written to the terminal
Printed(kind, text) == \E i \in 1..Len(console) : console[i] = Out(kind, text)

\* C11: invoked with no message, without the interactive flag and without
\* --config, the process prints the hint to give a message or use the
\* interactive mode, makes no completion request and exits with code 0.
C11_NoMessageIsGracefulNoOp ==
    (/\ pc = "exited"
     /\ argv.message = None
     /\ ~argv.interactive
     /\ ~argv.show_config) =>
        /\ Printed("hint", "--interactive")
        /\ n_requests = 0
        /\ calls = <<>>
        /\ exit_code = 0

\* C12: invoked with a positional message m, optionally --system s and no
\* other flag, the process calls the client's blocking chat exactly once, with
\* the arguments (m, s), s being None when --system is not given, and exits
\* with code 0.
C12_SingleMessageCallsChatOnce ==
    (/\ pc = "exited"
     /\ Truthy(argv.message)
     /\ ~argv.interactive
     /\ ~argv.show_config
     /\ ~argv.disable_stream
     /\ ~argv.simple_stream
     /\ client # NoClient) =>
        /\ calls = <<Call("chat", <<argv.message, argv.system>>)>>
        /\ exit_code = 0

----------------------------------------------------------------------------
(* Configuration resolution: the env files are loaded when the client module
   is imported, before cli runs *)

\* What the environment and the two files may say about the key and the model
ProcessEnvirons ==
    {[Unset EXCEPT !["OPENAI_API_KEY"] = k, !["OPENAI_MODEL"] = m] :
        k \in {None, "sk-test"}, m \in {None, "env-model"}}

GlobalFiles ==
    {NoFile} \cup
    {EnvFile(TRUE, [Unset EXCEPT !["OPENAI_API_KEY"] = k, !["OPENAI_MODEL"] = m]) :
        k \in {None, "sk-global"}, m \in {None, "global-model"}}

LocalFiles ==
    {NoFile} \cup
    {EnvFile(TRUE, [Unset EXCEPT !["OPENAI_API_KEY"] = k, !["OPENAI_MODEL"] = m]) :
        k \in {None, "sk-local"}, m \in {None, "local-model"}}

InitEnv ==
    /\ argv = [message |-> None, interactive |-> FALSE, system |-> None,
               show_config |-> FALSE, disable_stream |-> FALSE,
               simple_stream |-> FALSE]
    /\ environ \in ProcessEnvirons
    /\ global_env \in GlobalFiles
    /\ local_env \in LocalFiles
    /\ pc = "import"
    /\ client = NoClient
    /\ history = <<>>
    /\ user_input = None
    /\ full_response = None
    /\ response = None
    /\ pending = Exhausted
    /\ backend = None
    /\ console = <<>>
    /\ sent = <<>>
    /\ n_requests = 0
    /\ n_prompts = 0
    /\ exit_code = None
    /\ compatible = <<>>
    /\ calls = <<>>
    /\ n_failed = 0

\* import src.client: the module calls load_env_files()
ImportClient ==
    /\ pc = "import"
    /\ environ' = load_env_files(environ, global_env, local_env)
    /\ pc' = "cli"
    /\ UNCHANGED <<argv, backend, global_env, local_env, compatible, calls,
                   n_failed, client, history, user_input, full_response,
                   response, pending, console, sent, n_requests, n_prompts,
                   exit_code>>

NextEnv ==
    \/ ImportClient
    \/ cli
    \/ run_chat_command

SpecEnv == InitEnv /\ [][NextEnv]_vars

\* What a file says about a key, None when the file is missing or silent
FileValue(file, k) == IF file.exists THEN file.values[k] ELSE None

\* C13: loading the env files gives every key the value of its source of
\* highest precedence, the order being global file, then local file, then
\* process environment: a key of the process environment keeps its value
\* whatever the files say, a key of both files takes the local value, and a key
\* of the global file alone takes that one.
C13_ProcessEnvironmentWins ==
    [][ pc = "import" =>
          \A k \in EnvKeys :
              environ'[k] =
                  (IF environ[k] # None THEN environ[k]
                   ELSE IF FileValue(local_env, k) # None
                        THEN FileValue(local_env, k)
                   ELSE FileValue(global_env, k)) ]_vars

----------------------------------------------------------------------------
(* Terminal detection and renderer selection: one streamed message under
   every combination of terminal signals *)

TermPrograms == {None, "vscode", "WezTerm", "iTerm.app"}
SshClients == {None, "", "10.0.0.1 50000 22"}
SshTtys == {None, "/dev/pts/0"}
Terms == {None, "dumb", "Linux", "screen", "xterm", "xterm-256color",
          "screen.xterm-256color", "tmux-256color"}

TermEnvirons ==
    {[Unset EXCEPT !["OPENAI_API_KEY"] = "sk-test", !["TERM_PROGRAM"] = p,
                   !["SSH_CLIENT"] = c, !["SSH_TTY"] = y, !["TERM"] = t] :
        p \in TermPrograms, c \in SshClients, y \in SshTtys, t \in Terms}

InitTerm ==
    /\ argv \in [message : {"Hello"}, interactive : {FALSE}, system : {None},
                 show_config : {FALSE}, disable_stream : {FALSE},
                 simple_stream : BOOLEAN]
    /\ environ \in TermEnvirons
    /\ pc = "cli"
    /\ client = NoClient
    /\ history = <<>>
    /\ user_input = None
    /\ full_response = None
    /\ response = None
    /\ pending = Exhausted
    /\ backend = None
    /\ console = <<>>
    /\ sent = <<>>
    /\ n_requests = 0
    /\ n_prompts = 0
    /\ exit_code = None
    /\ global_env = NoFile
    /\ local_env = NoFile
    /\ compatible = <<>>
    /\ calls = <<>>
    /\ n_failed = 0

NextTerm ==
    \/ cli
    \/ run_chat_command
    \/ SingleStream
    \/ SingleChunk
    \/ SingleStreamEnd
    \/ SingleStreamFail

SpecTerm == InitTerm /\ [][NextTerm]_vars

\* The signals as the claim names them.  A variable is set when it has a
\* non-empty value; TERM and TERM_PROGRAM are read without regard to case.
RecognizedProgram(env) ==
    env["TERM_PROGRAM"] # None /\
    Lower(env["TERM_PROGRAM"]) \in
        {"vscode", "wezterm", "alacritty", "kitty", "windows terminal",
         "gnome-terminal", "konsole", "terminal.app"}

SshSet(env) ==
    env["SSH_CLIENT"] \notin {None, ""} \/ env["SSH_TTY"] \notin {None, ""}

Has256Color(env) ==
    env["TERM"] # None /\
    \E family \in {"xterm-256color", "screen-256color", "tmux-256color"} :
        Contains(Lower(env["TERM"]), family)

BasicTerm(env) ==
    env["TERM"] # None /\ Lower(env["TERM"]) \in {"screen", "linux", "dumb"}

\* C14: the terminal detection depends on TERM_PROGRAM, SSH_CLIENT, SSH_TTY
\* and TERM alone, looked at in this order: a recognized TERM_PROGRAM gives
\* true; otherwise a set SSH_CLIENT or SSH_TTY gives false; otherwise a TERM
\* containing a known 256color family gives true; otherwise a TERM equal to
\* screen, linux or dumb gives false; otherwise true.  So vscode gives true,
\* TERM=dumb without TERM_PROGRAM false, SSH_TTY without a recognized
\* TERM_PROGRAM false, xterm-256color with nothing else true, and nothing set
\* true.
C14_TerminalDetection ==
    \A i \in 1..Len(compatible) :
        LET result == compatible[i]
            others(keys) == \A k \in {"TERM", "TERM_PROGRAM", "SSH_CLIENT",
                                      "SSH_TTY"} \ keys : environ[k] = None
        IN  /\ RecognizedProgram(environ) => result
            /\ ~RecognizedProgram(environ) /\ SshSet(environ) => ~result
            /\ (/\ ~RecognizedProgram(environ)
                /\ ~SshSet(environ)
                /\ Has256Color(environ)) => result
            /\ (/\ ~RecognizedProgram(environ)
                /\ ~SshSet(environ)
                /\ ~Has256Color(environ)
                /\ BasicTerm(environ)) => ~result
            /\ (/\ ~RecognizedProgram(environ)
                /\ ~SshSet(environ)
                /\ ~Has256Color(environ)
                /\ ~BasicTerm(environ)) => result
            /\ environ["TERM_PROGRAM"] = "vscode" => result
            /\ environ["TERM"] = "dumb" /\ environ["TERM_PROGRAM"] = None
                 => ~result
            /\ environ["SSH_TTY"] = "/dev/pts/0" /\ ~RecognizedProgram(environ)
                 => ~result
            /\ environ["TERM"] = "xterm-256color" /\ others({"TERM"}) => result
            /\ others({}) => result

\* Over SSH with TERM=xterm-256color and an unrecognized TERM_PROGRAM the
\* detection answered false
C14_Witness ==
    /\ compatible = <<FALSE>>
    /\ environ["TERM_PROGRAM"] = "iTerm.app"
    /\ environ["SSH_TTY"] = "/dev/pts/0"
    /\ environ["TERM"] = "xterm-256color"

\* Something of that kind was written to the terminal
Wrote(kind) == \E i \in 1..Len(console) : console[i].kind = kind

\* C15: a streamed answer, of a single message or of an interactive turn, is
\* rendered SIMPLE (header and raw chunks) whenever --simple-stream is given,
\* and otherwise RICH (live panel) exactly when the terminal is detected as
\* capable; RICH is never used with the flag or on an incapable terminal.
C15_RenderMode ==
    pc \in {"Rendering", "single_rendering"} =>
        LET capable == is_terminal_compatible(environ)
            rich    == Wrote("live")
            simple  == Wrote("header")
        IN  /\ rich # simple
            /\ argv.simple_stream => simple
            /\ ~argv.simple_stream => (rich <=> capable)
            /\ rich => ~argv.simple_stream /\ capable
            /\ \A i \in 1..Len(console) :
                   console[i].kind = "chunk" => simple

\* Without the flag, an interactive turn on TERM=dumb is rendered SIMPLE
C15_Witness ==
    /\ pc = "Rendering"
    /\ ~argv.simple_stream
    /\ environ["TERM"] = "dumb"
    /\ Wrote("header")
    /\ Wrote("chunk")
    /\ ~Wrote("live")

----------------------------------------------------------------------------
(* Properties of the turns of a session *)

\* C16: every user message appended is followed by exactly one completion
\* request before the next input is read; a request is never retried, skipped
\* or overlapped by another, at most one is in flight, and the number of
\* requests issued equals the number of user messages appended.
C16_OneRequestPerUserMessage ==
    pc \in SessionPcs =>
        LET in_flight == IF pc = "Rendering" THEN 1 ELSE 0
            awaiting_request == IF pc = "Requesting" THEN 1 ELSE 0
        IN  /\ n_requests + awaiting_request = UserCount(history)
            /\ Len(calls) = n_requests
            /\ in_flight <= 1
            /\ in_flight = 1 => sent = history
            /\ pc \in {"AwaitingInput", "Terminated"} =>
                   /\ n_requests = UserCount(history)
                   /\ pending.chunks = <<>>
            /\ n_prompts =
                   UserCount(history) + (IF pc = "Terminated" THEN 1 ELSE 0)

\* Two turns are over, one of them failed: two user messages, two requests
C16_Witness ==
    /\ pc = "AwaitingInput"
    /\ UserCount(history) = 2
    /\ n_requests = 2
    /\ n_failed = 1
    /\ Len(calls) = 2

\* The session is between two turns, or over
BetweenTurns == pc \in {"AwaitingInput", "Terminated"}

\* The user messages no assistant message directly follows
Unanswered(h) ==
    {i \in 1..Len(h) :
        h[i].role = "user" /\ (i = Len(h) \/ h[i + 1].role # "assistant")}

C18_ReplyIsJoinedChunks ==
    [][ /\ (pc = "Requesting" /\ pc' = "Rendering") =>
               /\ full_response' = ""
               /\ history' = history
        /\ (pc = "Rendering" /\ pc' = "Rendering") =>
               /\ pending.chunks # <<>>
               /\ pending'.chunks = Tail(pending.chunks)
               /\ full_response' = full_response \o Head(pending.chunks)
               /\ full_response' \o Join(pending'.chunks) =
                      full_response \o Join(pending.chunks)
               /\ history' = history
        /\ (pc = "Rendering" /\ pc' = "AwaitingInput" /\ ~TurnFailed(console')) =>
               /\ pending.chunks = <<>>
               /\ Len(history') = Len(history) + 1
               /\ SubSeq(history', 1, Len(history)) = history
               /\ Last(history') =
                      [role |-> "assistant", content |-> full_response]
               /\ Last(history').content = Shown(console) ]_vars

\* The second turn's reply is "Hello", streamed as "Hel", "lo" into the live
\* panel, after a first turn that had streamed "loHel"
C18_Witness ==
    /\ pc = "AwaitingInput"
    /\ Len(history) = 5
    /\ history[3] = [role |-> "assistant", content |-> "loHel"]
    /\ history[5] = [role |-> "assistant", content |-> "Hello"]
    /\ pending = Exhausted
    /\ ~argv.simple_stream
    /\ console = <<[kind |-> "live", text |-> "Hello"]>>

\* C19: the message list sent with each request of the session is the whole
\* conversation at that moment, ending with the user message just entered; so
\* after a failed turn the next request carries the failed turn's user message
\* directly followed by the new user message, with no assistant reply between
\* them.
C19_RequestCarriesWholeConversation ==
    [][ /\ (pc = "Requesting" /\ n_requests' # n_requests) =>
               /\ sent' = history
               /\ Last(sent') = [role |-> "user", content |-> user_input]
        /\ (pc = "AwaitingInput" /\ TurnFailed(console) /\ pc' = "Requesting") =>
               /\ Len(history') >= 3
               /\ history'[Len(history') - 1].role = "user"
               /\ Last(history') = [role |-> "user", content |-> user_input'] ]_vars

\* C20: every assistant message directly follows a user message, there are
\* never more assistant messages than user messages, and the user messages
\* outnumber the assistant messages by the number of turns that failed, plus
\* one while a turn is in progress.
C20_CountsDifferByFailedTurns ==
    pc \in SessionPcs =>
        LET users      == UserCount(history)
            assistants == Len(SelectSeq(history,
                                        LAMBDA m : m.role = "assistant"))
            in_progress == IF pc \in {"Requesting", "Rendering"} THEN 1 ELSE 0
        IN  /\ \A i \in 1..Len(history) :
                   history[i].role = "assistant" =>
                       i > 1 /\ history[i - 1].role = "user"
            /\ assistants <= users
            /\ users - assistants = n_failed + in_progress

====
